---------------------------- MODULE Spec2Model ----------------------------
(***************************************************************************)
(* Model of podcast_generator/produce_podcast.py: the script parser        *)
(* (parse_podcast_script), the batch loop of main with generate_audio,     *)
(* and the report writer.                                                  *)
(*                                                                         *)
(* Conventions.  A Python string is a sequence of one-character strings,   *)
(* so that startswith, replace, slicing, strip and the regular expression  *)
(* are computed on characters.  A Python/JSON value is a record            *)
(* [type, s]: type "str" with its characters in s, "null" (Python None),   *)
(* "num" (a non-zero JSON number); "absent" marks a key that an object     *)
(* does not carry.  The wall-clock elapsed_time of the report is left out. *)
(***************************************************************************)
EXTENDS Integers, Sequences, FiniteSets, TLC

(* ------------------------------ bounds -------------------------------- *)

\* Longest JSON array of a run of main.
MaxSegs == 3

\* Longest JSON array handed to parse_podcast_script called on its own.
MaxItems == 2

(* ------------------------------ values -------------------------------- *)

Str(chars) == [type |-> "str", s |-> chars]

None == [type |-> "null", s |-> <<>>]

\* A JSON number other than 0 (so a truthy value that is not a string).
Num == [type |-> "num", s |-> <<>>]

\* A key the JSON object does not carry.
Absent == [type |-> "absent", s |-> <<>>]

IsStr(v) == v.type = "str"

\* Python truthiness of None, a string, a non-zero number.
Truthy(v) == IF v.type = "str" THEN v.s # <<>> ELSE v.type = "num"

\* x or y
PyOr(x, y) == IF Truthy(x) THEN x ELSE y

(* ------------------------------ strings ------------------------------- *)

Digits == <<"0", "1", "2", "3", "4", "5", "6", "7", "8", "9">>

IsDigit(c) == \E k \in 1..Len(Digits) : Digits[k] = c

IsSpace(c) == c \in {" ", "\t", "\n"}

\* str(n) for a natural number n, as in an f-string.
RECURSIVE IntToStr(_)
IntToStr(n) ==
    IF n < Len(Digits) THEN <<Digits[n + 1]>>
    ELSE IntToStr(n \div Len(Digits)) \o <<Digits[(n % Len(Digits)) + 1]>>

\* s.startswith(prefix)
StartsWith(s, prefix) ==
    /\ Len(s) >= Len(prefix)
    /\ \A k \in 1..Len(prefix) : s[k] = prefix[k]

\* s.replace(old, new) for one-character old and new.
Replace(s, old, new) == [k \in 1..Len(s) |-> IF s[k] = old THEN new ELSE s[k]]

\* s[:n]
Prefix(s, n) == IF Len(s) <= n THEN s ELSE SubSeq(s, 1, n)

\* s.strip(): leading and trailing whitespace removed.
Strip(s) ==
    LET keep == {k \in 1..Len(s) : ~IsSpace(s[k])}
    IN  IF keep = {} THEN <<>>
        ELSE LET lo == CHOOSE k \in keep : \A j \in keep : k <= j
                 hi == CHOOSE k \in keep : \A j \in keep : k >= j
             IN  SubSeq(s, lo, hi)

\* The pattern \d{4}-\d{2}-\d{2}[- ]\d{2}-\d{2}-\d{2}: "d" is \d, "s" is [- ].
TimestampPattern ==
    <<"d", "d", "d", "d", "-", "d", "d", "-", "d", "d", "s",
      "d", "d", "-", "d", "d", "-", "d", "d">>

ClassMatch(cls, c) ==
    IF cls = "d" THEN IsDigit(c)
    ELSE IF cls = "s" THEN c \in {"-", " "}
    ELSE c = cls

MatchAt(s, p) ==
    /\ p + Len(TimestampPattern) - 1 <= Len(s)
    /\ \A k \in 1..Len(TimestampPattern) :
           ClassMatch(TimestampPattern[k], s[p + k - 1])

\* re.search(pattern, s): the leftmost match as [found, group], group(1) being
\* the whole match.
ReSearch(s) ==
    LET hits == {p \in 1..Len(s) : MatchAt(s, p)}
    IN  IF hits = {} THEN [found |-> FALSE, group |-> <<>>]
        ELSE LET p == CHOOSE q \in hits : \A r \in hits : q <= r
             IN  [found |-> TRUE,
                  group |-> SubSeq(s, p, p + Len(TimestampPattern) - 1)]

\* os.path.splitext(name)[0] of a base name: cut at the last dot, unless only
\* dots precede it.
SplitextRoot(name) ==
    LET dots == {k \in 1..Len(name) : name[k] = "."}
    IN  IF dots = {} THEN name
        ELSE LET d == CHOOSE k \in dots : \A j \in dots : k >= j
             IN  IF \E k \in 1..(d - 1) : name[k] # "."
                 THEN SubSeq(name, 1, d - 1)
                 ELSE name

(* --------------------------- string literals -------------------------- *)

S_unknown == <<"u", "n", "k", "n", "o", "w", "n", "_">>

S_segment == <<"s", "e", "g", "m", "e", "n", "t", "_">>

S_paper == <<"p", "a", "p", "e", "r", "_">>

S_podcast == <<"p", "o", "d", "c", "a", "s", "t", "_">>

S_mp3 == <<".", "m", "p", "3">>

\* The slice bound of clean_title.
TitleCut == 50


(* ------------------------- JSON array elements ------------------------ *)

NoFields == [title |-> Absent, script |-> Absent, arxiv_id |-> Absent,
             channel_id |-> Absent]

\* A JSON object with (some of) the four keys the parser reads.
Obj(t, sc, a, c) ==
    [type |-> "object", s |-> <<>>,
     f |-> [title |-> t, script |-> sc, arxiv_id |-> a, channel_id |-> c]]

\* A JSON string element.
ElemStr(chars) == [type |-> "str", s |-> chars, f |-> NoFields]

\* A JSON element that is neither an object nor a string.
ElemNum == [type |-> "num", s |-> <<>>, f |-> NoFields]

\* item.get(key, default): the default only when the key is absent (a key
\* carrying JSON null yields None).
Get(item, key, default) ==
    IF item.f[key].type = "absent" THEN default ELSE item.f[key]

(* ----------------------------- the parser ----------------------------- *)

\* f'unknown_{idx}', f'segment_{idx}', f'paper_{idx}'
UnknownId(idx) == S_unknown \o IntToStr(idx)

SegmentTitle(idx) == S_segment \o IntToStr(idx)

PaperKey(idx) == S_paper \o IntToStr(idx)

\* arxiv_id.startswith('unknown_') or arxiv_id.startswith('segment_')
HasMarker(chars) == StartsWith(chars, S_unknown) \/ StartsWith(chars, S_segment)

\* title.replace(' ', '_')[:50]
CleanTitle(chars) == Prefix(Replace(chars, " ", "_"), TitleCut)

Raised == [raised |-> TRUE, seg |-> NoFields]

Parsed(seg) == [raised |-> FALSE, seg |-> seg]

\* ResolveObjectId with the two look-ups in the other order: paper_<idx>
\* before the title key.
ResolveObjectIdPaperFirst(arxiv_id, title, idx, mapping) ==
    IF ~IsStr(arxiv_id) THEN [raised |-> TRUE, id |-> arxiv_id]
    ELSE IF ~HasMarker(arxiv_id.s) THEN [raised |-> FALSE, id |-> arxiv_id]
    ELSE IF ~IsStr(title) THEN [raised |-> TRUE, id |-> arxiv_id]
    ELSE IF PaperKey(idx) \in DOMAIN mapping
         THEN [raised |-> FALSE, id |-> mapping[PaperKey(idx)]]
    ELSE IF CleanTitle(title.s) \in DOMAIN mapping
         THEN [raised |-> FALSE, id |-> mapping[CleanTitle(title.s)]]
    ELSE [raised |-> FALSE, id |-> arxiv_id]

\* Lines 172-180: the arxiv_id of an object element after the look-up in the
\* mapping; a non-string arxiv_id, or a non-string title under a marker,
\* raises AttributeError.
ResolveObjectId(arxiv_id, title, idx, mapping) ==
    IF ~IsStr(arxiv_id) THEN [raised |-> TRUE, id |-> arxiv_id]
    ELSE IF ~HasMarker(arxiv_id.s) THEN [raised |-> FALSE, id |-> arxiv_id]
    ELSE IF ~IsStr(title) THEN [raised |-> TRUE, id |-> arxiv_id]
    ELSE IF CleanTitle(title.s) \in DOMAIN mapping
         THEN [raised |-> FALSE, id |-> mapping[CleanTitle(title.s)]]
    ELSE IF PaperKey(idx) \in DOMAIN mapping
         THEN [raised |-> FALSE, id |-> mapping[PaperKey(idx)]]
    ELSE [raised |-> FALSE, id |-> arxiv_id]

\* Lines 166-190: one object element.
ParseObject(item, idx, override, mapping) ==
    LET title      == Get(item, "title", Str(SegmentTitle(idx)))
        script     == Get(item, "script", Str(<<>>))
        arxiv_id   == Get(item, "arxiv_id", PyOr(override, Str(UnknownId(idx))))
        channel_id == Get(item, "channel_id", Str(<<>>))
        r          == ResolveObjectId(arxiv_id, title, idx, mapping)
    IN  IF r.raised THEN Raised
        ELSE Parsed([title |-> title, script |-> script, arxiv_id |-> r.id,
                     channel_id |-> channel_id])

\* Lines 193-198: the arxiv_id of a string element.
ResolveStringId(override, idx, mapping) ==
    IF PaperKey(idx) \in DOMAIN mapping
    THEN mapping[PaperKey(idx)]
    ELSE PyOr(override, Str(UnknownId(idx)))

\* Lines 191-205: one string element.
ParseString(item, idx, override, mapping) ==
    Parsed([title |-> Str(SegmentTitle(idx)), script |-> Str(item.s),
            arxiv_id |-> ResolveStringId(override, idx, mapping),
            channel_id |-> Str(<<>>)])

\* Lines 164-207: one element by its shape; any other shape raises ValueError.
ParseItem(item, idx, override, mapping) ==
    IF item.type = "object" THEN ParseObject(item, idx, override, mapping)
    ELSE IF item.type = "str" THEN ParseString(item, idx, override, mapping)
    ELSE Raised

\* ParseItems returning the segments parsed so far when an element raises,
\* instead of raising.
RECURSIVE ParseItemsPartial(_, _, _, _, _)
ParseItemsPartial(items, idx, acc, override, mapping) ==
    IF idx >= Len(items) THEN [raised |-> FALSE, segs |-> acc]
    ELSE LET r == ParseItem(items[idx + 1], idx, override, mapping)
         IN  IF r.raised THEN [raised |-> FALSE, segs |-> acc]
             ELSE ParseItemsPartial(items, idx + 1, Append(acc, r.seg),
                                    override, mapping)

\* Lines 163-207: the loop over the array, idx counting from 0; the first
\* exception ends it.
RECURSIVE ParseItems(_, _, _, _, _)
ParseItems(items, idx, acc, override, mapping) ==
    IF idx >= Len(items) THEN [raised |-> FALSE, segs |-> acc]
    ELSE LET r == ParseItem(items[idx + 1], idx, override, mapping)
         IN  IF r.raised THEN [raised |-> TRUE, segs |-> <<>>]
             ELSE ParseItems(items, idx + 1, Append(acc, r.seg), override, mapping)

\* ResolveMarkdownId looking at the file name before the mapping.
ResolveMarkdownIdNameFirst(override, filename, mapping, now) ==
    IF Truthy(override) THEN override
    ELSE LET m == ReSearch(filename)
         IN  IF m.found THEN Str(Replace(m.group, " ", "-"))
             ELSE IF PaperKey(0) \in DOMAIN mapping THEN mapping[PaperKey(0)]
             ELSE Str(S_podcast \o IntToStr(now))

\* Lines 214-228: the arxiv_id of the markdown segment.
ResolveMarkdownId(override, filename, mapping, now) ==
    IF Truthy(override) THEN override
    ELSE IF PaperKey(0) \in DOMAIN mapping THEN mapping[PaperKey(0)]
    ELSE LET m == ReSearch(filename)
         IN  IF m.found THEN Str(Replace(m.group, " ", "-"))
             ELSE Str(S_podcast \o IntToStr(now))

\* Lines 209-236: the markdown path, content being the stripped file text.
ParseMarkdown(content, filename, override, mapping, now) ==
    <<[title |-> Str(SplitextRoot(filename)),
       script |-> Str(content),
       arxiv_id |-> ResolveMarkdownId(override, filename, mapping, now),
       channel_id |-> Str(<<>>)]>>

\* Lines 149-156: json.loads succeeded and gave a list.
IsJsonArray(file) == file.json = "array"

Exit(code) == [kind |-> "exit", code |-> code, segs |-> <<>>]

Return(segs) == [kind |-> "return", code |-> 0, segs |-> segs]

\* Lines 116-245.  file is the script file: exists, text (its characters),
\* json ("array", "other" for any other JSON value, "invalid") and, for an
\* array, items.
parse_podcast_script(file, filename, override, mapping, now) ==
    IF ~file.exists THEN Exit(1)
    ELSE IF IsJsonArray(file)
    THEN LET r == ParseItems(file.items, 0, <<>>, override, mapping)
         IN  IF r.raised THEN Exit(1) ELSE Return(r.segs)
    ELSE Return(ParseMarkdown(Strip(file.text), filename, override, mapping, now))


(* ----------------------- strings of the inputs ----------------------- *)

\* A title with a space; its mapping key is A_B.
T_AB ==
    <<"A", " ", "B">>

K_AB ==
    <<"A", "_", "B">>

\* A title of 51 characters; its mapping key is its first 50, spaces replaced.
T_Long ==
    <<"A", "t", "t", "e", "n", "t", "i", "o", "n", " ", "I", "s", " ", "A",
      "l", "l", " ", "Y", "o", "u", " ", "N", "e", "e", "d", " ", "f", "o",
      "r", " ", "L", "o", "n", "g", " ", "P", "o", "d", "c", "a", "s", "t",
      " ", "T", "i", "t", "l", "e", "s", " ", "Z">>

K_Long ==
    <<"A", "t", "t", "e", "n", "t", "i", "o", "n", "_", "I", "s", "_", "A",
      "l", "l", "_", "Y", "o", "u", "_", "N", "e", "e", "d", "_", "f", "o",
      "r", "_", "L", "o", "n", "g", "_", "P", "o", "d", "c", "a", "s", "t",
      "_", "T", "i", "t", "l", "e", "s", "_">>

K_LongUncut ==
    <<"A", "t", "t", "e", "n", "t", "i", "o", "n", "_", "I", "s", "_", "A",
      "l", "l", "_", "Y", "o", "u", "_", "N", "e", "e", "d", "_", "f", "o",
      "r", "_", "L", "o", "n", "g", "_", "P", "o", "d", "c", "a", "s", "t",
      "_", "T", "i", "t", "l", "e", "s", "_", "Z">>

\* arxiv_id values.
A_x1 ==
    <<"x", "1">>

A_seg7 ==
    <<"s", "e", "g", "m", "e", "n", "t", "_", "7">>

A_ov ==
    <<"o", "v">>

A_unk ==
    <<"u", "n", "k", "n", "o", "w", "n", "_", "o">>

\* Values of the mapping.
M_title ==
    <<"2", "3", "1", "0", ".", "1">>

M_long ==
    <<"2", "3", "1", "0", ".", "5">>

M_p0 ==
    <<"2", "4", "0", "1", ".", "0">>

M_p1 ==
    <<"2", "4", "0", "1", ".", "1">>

\* A channel id.
C_ch ==
    <<"c", "h">>

\* Script texts.
X_hi ==
    <<"h", "i">>

X_padded ==
    <<" ", "h", "i", "\n">>

X_blank ==
    <<" ", " ">>

X_dialogue ==
    <<"[", "S", "1", "]", "a", " ", "b">>

X_five ==
    <<"5">>

\* Base names of the script file.
F_plain ==
    <<"p", "o", "d", "c", "a", "s", "t", ".", "m", "d">>

F_space ==
    <<"n", "o", "t", "e", "s", "_", "2", "0", "2", "5", "-", "1", "0", "-",
      "0", "5", " ", "1", "4", "-", "3", "0", "-", "0", "0", ".", "m", "d">>

F_dash ==
    <<"2", "0", "2", "5", "-", "1", "0", "-", "0", "5", "-", "1", "4", "-",
      "3", "0", "-", "0", "0">>

F_two ==
    <<"a", "_", "2", "0", "2", "6", "-", "0", "1", "-", "0", "2", "-", "0",
      "3", "-", "0", "4", "-", "0", "5", "_", "2", "0", "2", "5", "-", "1",
      "0", "-", "0", "5", " ", "1", "4", "-", "3", "0", "-", "0", "0", ".",
      "j", "s", "o", "n">>

F_under ==
    <<"2", "0", "2", "5", "-", "1", "0", "-", "0", "5", "_", "1", "4", "-",
      "3", "0", "-", "0", "0", ".", "m", "d">>

F_run ==
    <<"1", "2", "0", "2", "5", "-", "1", "0", "-", "0", "5", " ", "1", "4",
      "-", "3", "0", "-", "0", "0", "1", ".", "m", "d">>

F_dot ==
    <<".", "m", "d">>

F_tar ==
    <<"x", ".", "t", "a", "r", ".", "g", "z">>


(* ------------------------------- inputs ------------------------------- *)

\* A dict of the mapping file: keys to identifier strings.
EmptyMapping == [k \in {} |-> None]

MapOf(keys, vals) == [k \in {keys[i] : i \in 1..Len(keys)} |->
                        vals[CHOOSE i \in 1..Len(keys) : keys[i] = k]]

\* The script file as open/read/json.loads see it.
MissingFile == [exists |-> FALSE, text |-> <<>>, json |-> "invalid", items |-> <<>>]

\* Before the parser has opened the script file.
Unread == [exists |-> FALSE, text |-> <<>>, json |-> "unread", items |-> <<>>]

\* Text that json.loads rejects (JSONDecodeError).
TextFile(chars) == [exists |-> TRUE, text |-> chars, json |-> "invalid", items |-> <<>>]

\* Text that is a JSON value other than an array (ValueError at line 153).
JsonOtherFile(chars) == [exists |-> TRUE, text |-> chars, json |-> "other", items |-> <<>>]

\* Text that is a JSON array; only its parsed elements are kept, the code
\* reads nothing else of it on that path.
ArrayFile(items) == [exists |-> TRUE, text |-> <<>>, json |-> "array", items |-> items]

\* All sequences over S of length at most n.
SeqsUpTo(S, n) == UNION {[1..k -> S] : k \in 0..n}

\* Elements of the arrays of a run of main.
MainElems ==
    { Obj(Str(T_AB), Str(X_hi), Absent, Absent),
      Obj(Str(T_AB), Str(<<>>), Absent, Str(C_ch)),
      Obj(Absent, Absent, Str(<<>>), Absent),
      Obj(None, None, Str(A_x1), None),
      ElemStr(X_hi),
      ElemNum }

MainFiles ==
    {MissingFile, TextFile(<<>>), TextFile(X_padded)}
        \cup {ArrayFile(a) : a \in SeqsUpTo(MainElems, MaxSegs)}

\* What load_arxiv_mapping finds: no file, a file json.load rejects, a dict.
MappingFiles ==
    { [exists |-> FALSE, valid |-> FALSE, dict |-> EmptyMapping],
      [exists |-> TRUE, valid |-> FALSE, dict |-> EmptyMapping],
      [exists |-> TRUE, valid |-> TRUE, dict |-> MapOf(<<K_AB, PaperKey(0)>>, <<Str(M_title), Str(M_p0)>>)],
      [exists |-> TRUE, valid |-> TRUE, dict |-> MapOf(<<PaperKey(1)>>, <<Str(<<>>)>>)] }

\* The command line: --check-only, --verbose, --channel-id.
MainArgs ==
    [check_only : BOOLEAN, verbose : BOOLEAN, channel_id : {None, Str(C_ch)}]

\* time.time() as whole seconds.
Clock == {7, 1793791968}

(* -------------------------------- state ------------------------------- *)

VARIABLES
    pc,               \* where main (or the caller of the parser) stands
    args,             \* the parsed command line
    references,       \* load_voice_references' result: which samples were found
    arxiv_mapping,    \* load_arxiv_mapping's result
    script_file,      \* the script file, once read
    filename,         \* os.path.basename(args.script)
    override,         \* the arxiv_id_override argument of the parser
    now,              \* the clock the parser reads
    ret,              \* what parse_podcast_script did: return or exit
    segments,         \* main's segment list
    idx,              \* the loop index
    success_count,
    failed_count,
    generated_files,  \* the GenerationOutcome list
    calls,            \* synthesis backend calls so far: [idx, text, ok]
    audio_files,      \* names of the audio files written in full
    reports,          \* the result files written, in order
    exit_code         \* the process exit code, -1 while it runs

vars == <<pc, args, references, arxiv_mapping, script_file, filename, override,
          now, ret, segments, idx, success_count, failed_count,
          generated_files, calls, audio_files, reports, exit_code>>

NoRet == [kind |-> "none", code |-> 0, segs |-> <<>>]

\* Everything but pc, args and the parser's inputs, before anything ran.
Fresh ==
    /\ references = <<>>
    /\ ret = NoRet
    /\ segments = <<>>
    /\ idx = 0
    /\ success_count = 0
    /\ failed_count = 0
    /\ generated_files = <<>>
    /\ calls = <<>>
    /\ audio_files = {}
    /\ reports = <<>>
    /\ exit_code = -1

\* main is entered with the command line parsed (line 303); it always passes
\* arxiv_id_override=None (line 335).
Init ==
    /\ pc = "start"
    /\ args \in MainArgs
    /\ arxiv_mapping = EmptyMapping
    /\ script_file = Unread
    /\ filename = F_plain
    /\ override = None
    /\ now = 0
    /\ Fresh

(* ------------------------------- main --------------------------------- *)

\* sys.exit(code), or an exception nothing catches (exit code 1).
Terminate(code) ==
    /\ pc' = "done"
    /\ exit_code' = code

\* Lines 315-321: --check-only returns before anything is loaded.
Start ==
    /\ pc = "start"
    /\ IF args.check_only THEN Terminate(0)
       ELSE pc' = "load_refs" /\ UNCHANGED exit_code
    /\ UNCHANGED <<args, references, arxiv_mapping, script_file, filename,
                   override, now, ret, segments, idx, success_count,
                   failed_count, generated_files, calls, audio_files, reports>>

\* Lines 55-87: the samples found, female first.
load_voice_references(female, male) ==
    (IF female THEN <<"female">> ELSE <<>>) \o (IF male THEN <<"male">> ELSE <<>>)

\* Lines 325 and 83-85: no sample at all ends the run.
LoadVoiceReferences ==
    /\ pc = "load_refs"
    /\ \E female \in BOOLEAN, male \in BOOLEAN :
          /\ references' = load_voice_references(female, male)
          /\ IF references' = <<>> THEN Terminate(1)
             ELSE pc' = "load_mapping" /\ UNCHANGED exit_code
    /\ UNCHANGED <<args, arxiv_mapping, script_file, filename, override, now,
                   ret, segments, idx, success_count, failed_count,
                   generated_files, calls, audio_files, reports>>

\* Lines 90-113: a missing or unreadable mapping file is an empty mapping.
load_arxiv_mapping(mf) == IF mf.exists /\ mf.valid THEN mf.dict ELSE EmptyMapping

\* Line 330.
LoadArxivMapping ==
    /\ pc = "load_mapping"
    /\ \E mf \in MappingFiles : arxiv_mapping' = load_arxiv_mapping(mf)
    /\ pc' = "parse"
    /\ UNCHANGED <<args, references, script_file, filename, override, now, ret,
                   segments, idx, success_count, failed_count, generated_files,
                   calls, audio_files, reports, exit_code>>

\* Lines 335-343: the parser's exit ends the run, else the loop starts.
ParseScript ==
    /\ pc = "parse"
    /\ \E file \in MainFiles, name \in {F_plain, F_space}, t \in Clock :
          /\ file.json = "array" => name = F_plain /\ t = 7
          /\ ~file.exists => name = F_plain /\ t = 7
          /\ script_file' = file
          /\ filename' = name
          /\ now' = t
          /\ ret' = parse_podcast_script(file, name, override, arxiv_mapping, t)
    /\ IF ret'.kind = "exit"
       THEN Terminate(ret'.code) /\ UNCHANGED segments
       ELSE pc' = "loop" /\ segments' = ret'.segs /\ UNCHANGED exit_code
    /\ UNCHANGED <<args, references, arxiv_mapping, override, idx,
                   success_count, failed_count, generated_files, calls,
                   audio_files, reports>>

\* f"{arxiv_id}.mp3"
OutputName(arxiv_id) == arxiv_id.s \o S_mp3

\* Lines 363-367.
Outcome(seg) ==
    [local_path |-> OutputName(seg.arxiv_id),
     arxiv_id   |-> seg.arxiv_id,
     channel_id |-> PyOr(seg.channel_id, args.channel_id)]

\* What one call of generate_audio (lines 248-274) can do: "ok" returns True
\* with the file written; "api_error" is an exception of the backend call,
\* "write_error" one of open/write; both are caught and return False.
Backend == {"ok", "api_error", "write_error"}

generate_audio(result) == result = "ok"

\* Lines 345-372: one iteration.  len(script) at line 359 (under --verbose)
\* and title[:40] at line 368 (after a success) raise TypeError on a value
\* that is not a string; nothing catches it.
LoopStep ==
    /\ pc = "loop"
    /\ idx < Len(segments)
    /\ LET seg == segments[idx + 1]
       IN  IF args.verbose /\ ~IsStr(seg.script)
           THEN /\ Terminate(1)
                /\ UNCHANGED <<idx, success_count, failed_count,
                               generated_files, calls, audio_files>>
           ELSE \E result \in Backend :
                  /\ calls' = Append(calls, [idx |-> idx, text |-> seg.script,
                                            ok |-> generate_audio(result)])
                  /\ IF generate_audio(result)
                     THEN /\ audio_files' = audio_files \cup {OutputName(seg.arxiv_id)}
                          /\ success_count' = success_count + 1
                          /\ generated_files' = Append(generated_files, Outcome(seg))
                          /\ UNCHANGED failed_count
                          /\ IF IsStr(seg.title)
                             THEN idx' = idx + 1 /\ UNCHANGED <<pc, exit_code>>
                             ELSE Terminate(1) /\ UNCHANGED idx
                     ELSE /\ failed_count' = failed_count + 1
                          /\ idx' = idx + 1
                          /\ UNCHANGED <<pc, exit_code, success_count,
                                         generated_files, audio_files>>
    /\ UNCHANGED <<args, references, arxiv_mapping, script_file, filename,
                   override, now, ret, segments, reports>>

\* Lines 388-393, without elapsed_time.
RunReport == [success |-> success_count, failed |-> failed_count,
              files |-> generated_files]

\* Lines 374-400: after the last segment the report file is written.
WriteReport ==
    /\ pc = "loop"
    /\ idx >= Len(segments)
    /\ reports' = Append(reports, RunReport)
    /\ pc' = "exit"
    /\ UNCHANGED <<args, references, arxiv_mapping, script_file, filename,
                   override, now, ret, segments, idx, success_count,
                   failed_count, generated_files, calls, audio_files, exit_code>>

\* ExitCode failing the run also when nothing succeeded.
ExitCodeNoSuccess(failed) == IF failed > 0 \/ success_count = 0 THEN 1 ELSE 0

\* Lines 402-403, and the return of main.
ExitCode(failed) == IF failed > 0 THEN 1 ELSE 0

Finish ==
    /\ pc = "exit"
    /\ Terminate(ExitCode(failed_count))
    /\ UNCHANGED <<args, references, arxiv_mapping, script_file, filename,
                   override, now, ret, segments, idx, success_count,
                   failed_count, generated_files, calls, audio_files, reports>>

Next ==
    \/ Start
    \/ LoadVoiceReferences
    \/ LoadArxivMapping
    \/ ParseScript
    \/ LoopStep
    \/ WriteReport
    \/ Finish

Spec == Init /\ [][Next]_vars


(* ------------------- the parser called on its own --------------------- *)

\* Object elements that vary title and arxiv_id, and ones that vary script
\* and channel_id; string elements; an element of another shape.
ParserElems ==
    {Obj(t, Str(X_hi), a, Absent) :
        t \in {Absent, None, Str(T_AB), Str(T_Long)},
        a \in {Absent, None, Str(A_x1), Str(A_seg7)}}
    \cup {Obj(Str(T_AB), sc, Str(A_x1), c) :
        sc \in {Absent, None, Str(<<>>)},
        c \in {Absent, None, Str(C_ch)}}
    \cup {ElemStr(X_hi), ElemStr(<<>>), ElemNum}

\* The arxiv_id_override argument: not given, given, given with a marker.
Overrides == {None, Str(A_ov), Str(A_unk)}

\* The arxiv_mapping argument.
ParserMappings ==
    { EmptyMapping,
      MapOf(<<K_AB, PaperKey(0)>>, <<Str(M_title), Str(M_p0)>>),
      MapOf(<<K_Long, PaperKey(1)>>, <<Str(M_long), Str(M_p1)>>),
      MapOf(<<K_LongUncut, T_AB>>, <<Str(M_long), Str(M_title)>>),
      MapOf(<<PaperKey(0), PaperKey(1)>>, <<Str(M_p0), Str(<<>>)>>) }

\* Script files of the markdown path, and the base names they come under.
MarkdownFiles ==
    {TextFile(<<>>), TextFile(X_blank), TextFile(X_hi), TextFile(X_padded),
     TextFile(X_dialogue), JsonOtherFile(X_five)}

Filenames == {F_plain, F_space, F_dash, F_two, F_under, F_run, F_dot, F_tar}

CallerArgs == [check_only |-> FALSE, verbose |-> FALSE, channel_id |-> None]

\* A caller about to call parse_podcast_script(script_path, override, mapping).
ParserInit(files, names, overrides, times) ==
    /\ pc = "call"
    /\ args = CallerArgs
    /\ script_file \in files
    /\ filename \in names
    /\ override \in overrides
    /\ arxiv_mapping \in ParserMappings
    /\ now \in times
    /\ Fresh

ArrayInit ==
    ParserInit({ArrayFile(a) : a \in SeqsUpTo(ParserElems, MaxItems)},
               {F_plain}, Overrides, {7})

MarkdownInit ==
    ParserInit(MarkdownFiles \cup {MissingFile}, Filenames,
               Overrides \cup {Str(<<>>)}, Clock)

\* The call: what the parser returns, or its sys.exit.
CallParse ==
    /\ pc = "call"
    /\ ret' = parse_podcast_script(script_file, filename, override,
                                   arxiv_mapping, now)
    /\ pc' = "returned"
    /\ UNCHANGED <<args, references, arxiv_mapping, script_file, filename,
                   override, now, segments, idx, success_count, failed_count,
                   generated_files, calls, audio_files, reports, exit_code>>

ArraySpec == ArrayInit /\ [][CallParse]_vars

MarkdownSpec == MarkdownInit /\ [][CallParse]_vars


(* ======================== properties of a run ========================= *)

\* The parser has been called and has returned or exited.
ParserDone == ret.kind # "none"

\* The script file holds nothing but whitespace.
EmptyScriptFile ==
    /\ script_file.exists
    /\ script_file.json = "invalid"
    /\ \A k \in 1..Len(script_file.text) : IsSpace(script_file.text[k])

\* C1: parse_podcast_script never returns an empty list: it returns at least
\* one segment or ends the run with a non-zero exit code before any synthesis
\* call, and on an empty (or whitespace-only) script file it always ends the
\* run.
C1_ParserNeverReturnsEmpty ==
    ParserDone =>
        /\ ret.kind = "return" => Len(ret.segs) >= 1
        /\ ret.kind = "exit" => ret.code # 0 /\ exit_code # 0 /\ calls = <<>>
        /\ EmptyScriptFile => ret.kind = "exit"

\* C2: every segment handed to generate_audio has a non-empty string as its
\* arxiv_id.
C2_ArxivIdNeverEmpty ==
    \A k \in 1..Len(calls) :
        LET seg == segments[calls[k].idx + 1]
        IN  IsStr(seg.arxiv_id) /\ seg.arxiv_id.s # <<>>

\* The loop has been entered: the parser returned a segment list to main.
LoopEntered == pc \in {"loop", "exit", "done"} /\ ret.kind = "return"

\* The backend calls made so far are those of segments 0, 1, ... in order,
\* one each, with the segment's script.
CallsInOrder ==
    \A k \in 1..Len(calls) :
        /\ calls[k].idx = k - 1
        /\ calls[k].text = segments[k].script

\* The number of calls among the first n that succeeded / failed.
RECURSIVE CountCalls(_, _)
CountCalls(n, ok) ==
    IF n = 0 THEN 0
    ELSE CountCalls(n - 1, ok) + (IF calls[n].ok = ok THEN 1 ELSE 0)

\* C3: the backend is called exactly once per segment, in list order; a
\* failed segment only adds one to the failure count and the following
\* segments are still attempted; no exception leaves the loop, so a run that
\* entered the loop ends with every segment attempted.
C3_LoopAttemptsEverySegment ==
    LoopEntered =>
        /\ CallsInOrder
        /\ failed_count = CountCalls(Len(calls), FALSE)
        /\ pc = "loop" => Len(calls) = idx
        /\ pc \in {"exit", "done"} =>
              idx = Len(segments) /\ Len(calls) = Len(segments)

\* The GenerationOutcomes of the successful ones among the first n calls.
RECURSIVE OutcomesOf(_)
OutcomesOf(n) ==
    IF n = 0 THEN <<>>
    ELSE IF calls[n].ok
         THEN Append(OutcomesOf(n - 1), Outcome(segments[calls[n].idx + 1]))
         ELSE OutcomesOf(n - 1)

\* C4: a run that got a segment list from the parser has written the report
\* exactly once when it ends, and never before the last segment was processed;
\* the report counts the successful and the failed segments, the two counts
\* add up to the number of segments, and files holds the outcomes of the
\* successful segments in order.
C4_ReportWrittenOnce ==
    LoopEntered =>
        /\ pc = "loop" => reports = <<>>
        /\ pc \in {"exit", "done"} =>
              /\ Len(reports) = 1
              /\ Len(calls) = Len(segments)
              /\ reports[1].success = CountCalls(Len(calls), TRUE)
              /\ reports[1].failed = CountCalls(Len(calls), FALSE)
              /\ reports[1].success + reports[1].failed = Len(segments)
              /\ reports[1].files = OutcomesOf(Len(calls))

\* C5: a run that reaches the report writer exits non-zero exactly when the
\* report's failed count is positive, whatever the success count, and it has
\* not exited before the report is written.
C5_ExitCodeIffFailed ==
    /\ pc = "exit" => Len(reports) = 1 /\ exit_code = -1
    /\ reports # <<>> /\ pc = "done" =>
          /\ reports[1].failed = failed_count
          /\ reports[1].success = success_count
          /\ exit_code \in {0, 1}
          /\ exit_code # 0 <=> reports[1].failed > 0

\* C5's case: a finished run with successes and failures, exit code 1.
C5_Witness ==
    /\ pc = "done"
    /\ Len(reports) = 1
    /\ reports[1].failed > 0
    /\ reports[1].success > 0
    /\ exit_code = 1

\* load_voice_references ran and found no sample.
NoVoiceReference ==
    ~args.check_only /\ pc \notin {"start", "load_refs"} /\ references = <<>>

\* The parser ran and the script file does not exist.
NoScriptFile == ParserDone /\ ~script_file.exists

\* Element k of the array is neither an object nor a string.
BadElementAt(k) == script_file.items[k].type \notin {"object", "str"}

\* The parser ran on a JSON array with such an element.
BadElement ==
    /\ ParserDone
    /\ script_file.json = "array"
    /\ \E k \in 1..Len(script_file.items) : BadElementAt(k)

\* C6: with no voice reference, with no script file, or with an array element
\* (at any position) that is neither an object nor a string, the run is over
\* with a non-zero exit code, and no synthesis call was made, no audio file
\* and no report written, and no segment (also none of those before the bad
\* element) reached main.
C6_FatalStopsBeforeSynthesis ==
    NoVoiceReference \/ NoScriptFile \/ BadElement =>
        /\ pc = "done"
        /\ exit_code # 0
        /\ calls = <<>>
        /\ audio_files = {}
        /\ reports = <<>>
        /\ segments = <<>>
        /\ ParserDone => ret.kind = "exit" /\ ret.segs = <<>>

\* C6's case: an array of three elements whose last is a number, after two
\* string elements, has ended the run.
C6_Witness ==
    /\ BadElement
    /\ Len(script_file.items) = 3
    /\ script_file.items[1].type = "str"
    /\ script_file.items[2].type = "str"
    /\ BadElementAt(3)
    /\ pc = "done"
    /\ exit_code = 1


(* ====================== properties of the parser ====================== *)

\* The call of the parser is over, on a JSON array.
ArrayParsed == pc = "returned" /\ script_file.json = "array"

AllOfType(type) ==
    \A k \in 1..Len(script_file.items) : script_file.items[k].type = type

\* The value of an object's key, with the default in the place of an absent
\* key or of JSON null.
OrDefault(v, default) == IF v.type \in {"absent", "null"} THEN default ELSE v

\* The default arxiv_id of element i: the override if given, else
\* unknown_<i>.
DefaultId(i) ==
    IF override # None /\ override # Str(<<>>) THEN override
    ELSE Str(<<"u", "n", "k", "n", "o", "w", "n", "_">> \o IntToStr(i))

\* C7: an array of objects gives one segment per element, in order, with no
\* null field: an absent or null key is replaced by its default.
C7_ObjectsGiveNonNullSegments ==
    ArrayParsed /\ AllOfType("object") =>
        /\ ret.kind = "return"
        /\ Len(ret.segs) = Len(script_file.items)
        /\ \A k \in 1..Len(ret.segs) :
              LET f   == script_file.items[k].f
                  seg == ret.segs[k]
              IN  /\ seg.title = OrDefault(f.title, Str(SegmentTitle(k - 1)))
                  /\ seg.script = OrDefault(f.script, Str(<<>>))
                  /\ seg.channel_id = OrDefault(f.channel_id, Str(<<>>))
                  /\ seg.title # None /\ seg.script # None
                  /\ seg.arxiv_id # None /\ seg.channel_id # None

\* chars carries the unresolved marker.
Marked(chars) ==
    \E m \in {<<"u", "n", "k", "n", "o", "w", "n", "_">>,
              <<"s", "e", "g", "m", "e", "n", "t", "_">>} :
        Len(chars) >= Len(m) /\ SubSeq(chars, 1, Len(m)) = m

\* key is title with its spaces replaced by underscores, cut to 50 characters.
IsTitleKey(key, title) ==
    /\ Len(key) = (IF Len(title) > 50 THEN 50 ELSE Len(title))
    /\ \A j \in 1..Len(key) : key[j] = (IF title[j] = " " THEN "_" ELSE title[j])

\* The mapping's key of the title of segment seg, if there is one.
TitleKeys(seg) == {key \in DOMAIN arxiv_mapping : IsTitleKey(key, seg.title.s)}

\* C9: in a returned segment list, the segment of object element i has the
\* element's arxiv_id (explicit, else override, else unknown_<i>) unless that
\* starts with unknown_ or segment_; then it has the mapping's entry of the
\* sanitized title if there is one, else the entry of paper_<i> if there is
\* one, else again the element's arxiv_id.
C9_ObjectIdReconciliation ==
    ArrayParsed /\ ret.kind = "return" =>
        \A k \in 1..Len(script_file.items) :
            script_file.items[k].type = "object" =>
                LET given == script_file.items[k].f.arxiv_id
                    own   == IF given = Absent THEN DefaultId(k - 1) ELSE given
                    seg   == ret.segs[k]
                    paper == S_paper \o IntToStr(k - 1)
                IN  /\ IsStr(own)
                    /\ ~Marked(own.s) => seg.arxiv_id = own
                    /\ Marked(own.s) =>
                          /\ IsStr(seg.title)
                          /\ \A key \in TitleKeys(seg) :
                                seg.arxiv_id = arxiv_mapping[key]
                          /\ TitleKeys(seg) = {} /\ paper \in DOMAIN arxiv_mapping =>
                                seg.arxiv_id = arxiv_mapping[paper]
                          /\ TitleKeys(seg) = {} /\ paper \notin DOMAIN arxiv_mapping =>
                                seg.arxiv_id = own

\* C9's case: an object without arxiv_id, at index 1, whose title is longer
\* than 50 characters, with both the title's key and paper_1 in the mapping,
\* got the title's entry.
C9_Witness ==
    /\ ArrayParsed
    /\ ret.kind = "return"
    /\ Len(script_file.items) = 2
    /\ script_file.items[2].type = "object"
    /\ script_file.items[2].f.arxiv_id = Absent
    /\ override = None
    /\ Len(ret.segs[2].title.s) > 50
    /\ TitleKeys(ret.segs[2]) # {}
    /\ PaperKey(1) \in DOMAIN arxiv_mapping
    /\ ret.segs[2].arxiv_id = Str(M_long)
    /\ arxiv_mapping[PaperKey(1)] # Str(M_long)

\* C10: an array of N strings gives N segments in order, segment i with title
\* segment_<i>, the i-th string as script and an empty channel_id; its
\* arxiv_id is the override or unknown_<i>, replaced by the mapping's paper_<i>
\* entry only when it carries the unresolved marker, so an override is kept.
C10_StringIdKeepsOverride ==
    ArrayParsed /\ AllOfType("str") =>
        /\ ret.kind = "return"
        /\ Len(ret.segs) = Len(script_file.items)
        /\ \A k \in 1..Len(ret.segs) :
              LET seg   == ret.segs[k]
                  own   == DefaultId(k - 1)
                  paper == S_paper \o IntToStr(k - 1)
              IN  /\ seg.title = Str(SegmentTitle(k - 1))
                  /\ seg.script = Str(script_file.items[k].s)
                  /\ seg.channel_id = Str(<<>>)
                  /\ seg.arxiv_id =
                        IF Marked(own.s) /\ paper \in DOMAIN arxiv_mapping
                        THEN arxiv_mapping[paper]
                        ELSE own

\* The call of the parser is over, on a file that is no JSON array.
MarkdownParsed ==
    pc = "returned" /\ script_file.exists /\ script_file.json # "array"

\* w is YYYY-MM-DD, a space or a dash, HH-MM-SS.
IsTimestamp(w) ==
    /\ Len(w) = 19
    /\ \A j \in {5, 8, 14, 17} : w[j] = "-"
    /\ w[11] \in {" ", "-"}
    /\ \A j \in (1..19) \ {5, 8, 11, 14, 17} :
           w[j] \in {"0", "1", "2", "3", "4", "5", "6", "7", "8", "9"}

\* The places of the file name where a timestamp starts.
TimestampsIn(name) ==
    {p \in 1..(Len(name) - 18) : IsTimestamp(SubSeq(name, p, p + 18))}

\* The number a string of decimal digits denotes.
RECURSIVE DecimalValue(_)
DecimalValue(d) ==
    IF d = <<>> THEN 0
    ELSE 10 * DecimalValue(SubSeq(d, 1, Len(d) - 1))
            + (CHOOSE n \in 0..9 : Digits[n + 1] = d[Len(d)])

\* id is the arxiv_id the markdown path chooses: the override if given, else
\* the mapping's paper_0, else the first timestamp of the file name with its
\* space made a dash, else podcast_<now>.
MarkdownIdByPriority(id) ==
    IF override # None /\ override # Str(<<>>) THEN id = override
    ELSE IF <<"p", "a", "p", "e", "r", "_", "0">> \in DOMAIN arxiv_mapping
    THEN id = arxiv_mapping[<<"p", "a", "p", "e", "r", "_", "0">>]
    ELSE IF TimestampsIn(filename) # {}
    THEN \E p \in TimestampsIn(filename) :
            /\ \A q \in TimestampsIn(filename) : p <= q
            /\ IsStr(id) /\ Len(id.s) = 19
            /\ \A j \in 1..19 :
                  id.s[j] = (IF j = 11 THEN "-" ELSE filename[p + j - 1])
    ELSE /\ IsStr(id)
         /\ Len(id.s) > Len(S_podcast)
         /\ SubSeq(id.s, 1, Len(S_podcast)) = S_podcast
         /\ DecimalValue(SubSeq(id.s, Len(S_podcast) + 1, Len(id.s))) = now

\* title is the file name without its extension: what follows is empty, or
\* a dot and then no further dot; a name of leading dots only has none.
IsNameWithoutExtension(title, name) ==
    \E n \in 0..Len(name) :
        /\ title = SubSeq(name, 1, n)
        /\ n < Len(name) =>
              /\ name[n + 1] = "."
              /\ \A j \in (n + 2)..Len(name) : name[j] # "."
              /\ \E j \in 1..n : name[j] # "."
        /\ n = Len(name) =>
              \A d \in 1..Len(name) : name[d] = "." => \A j \in 1..d : name[j] = "."

\* The markdown path returns one segment with the given script, the arxiv_id
\* chosen by priority, the file name without extension as title and an empty
\* channel_id.
MarkdownReturns(script) ==
    /\ ret.kind = "return"
    /\ Len(ret.segs) = 1
    /\ MarkdownIdByPriority(ret.segs[1].arxiv_id)
    /\ ret.segs[1].script = Str(script)
    /\ IsStr(ret.segs[1].title)
    /\ IsNameWithoutExtension(ret.segs[1].title.s, filename)
    /\ ret.segs[1].channel_id = Str(<<>>)

\* C8 as claimed: on the markdown path the parser returns one segment, its
\* arxiv_id chosen by priority (override, paper_0, timestamp of the file name,
\* podcast_<time>), its script the whole file content, its title the file
\* name without extension, its channel_id empty.
C8_MarkdownWholeContent ==
    MarkdownParsed => MarkdownReturns(script_file.text)

\* inner is text without its leading and trailing whitespace.
IsStripped(inner, text) ==
    \E lo \in 1..(Len(text) + 1), hi \in 0..Len(text) :
        /\ inner = SubSeq(text, lo, hi)
        /\ \A j \in (1..(lo - 1)) \cup ((hi + 1)..Len(text)) : IsSpace(text[j])
        /\ inner # <<>> => ~IsSpace(inner[1]) /\ ~IsSpace(inner[Len(inner)])

\* C8 as amended: the same, the script being the file content without its
\* leading and trailing whitespace.
C8_MarkdownStrippedContent ==
    MarkdownParsed =>
        /\ IsStr(ret.segs[1].script)
        /\ IsStripped(ret.segs[1].script.s, script_file.text)
        /\ MarkdownReturns(ret.segs[1].script.s)

\* C8's case: no override, paper_0 in the mapping and a timestamp in the file
\* name: the mapping's entry is the arxiv_id; the file's text is padded with
\* whitespace and the script is not.
C8_Witness ==
    /\ MarkdownParsed
    /\ override = None
    /\ PaperKey(0) \in DOMAIN arxiv_mapping
    /\ TimestampsIn(filename) # {}
    /\ ret.segs[1].arxiv_id = arxiv_mapping[PaperKey(0)]
    /\ script_file.text = X_padded
    /\ ret.segs[1].script = Str(X_hi)

=============================================================================
